---------------------------- MODULE Spec2Model ----------------------------
(***************************************************************************)
(* A model of the verachat backend (src/api/index.js): an express app      *)
(* whose handlers read and write the posts, likes and comments tables of   *)
(* an external store through the supabase client.                          *)
(*                                                                         *)
(* Every await is a suspension point: a request is a sequence of atomic    *)
(* steps, one per call of the identity service or store round-trip, and    *)
(* the steps of the requests in flight interleave freely.  The supabase    *)
(* client does not throw on a failed call: it resolves to {data: null,     *)
(* count: null, error}, so a failure is seen only by a handler that reads  *)
(* `error`.                                                                *)
(*                                                                         *)
(* A nullable JavaScript value is modelled as a set with at most one       *)
(* element: {} is null/undefined, {v} is the value v.                      *)
(***************************************************************************)
EXTENDS Naturals, Sequences, FiniteSets

\* ------------------------------------------------------------------ bounds

\* Requests handled in one run of the model.
MaxCalls == 3
\* Store round-trips that fail in one run of the model.
MaxFaults == 2
\* Post rows the store assigns an id to.
MaxPosts == 2
\* Like rows the store assigns an id to.
MaxLikes == 3
\* Comment rows the store assigns an id to.
MaxComments == 1

\* Requests in flight at the same time.
Slots == {1, 2}

\* The principals the identity service knows.
Users == {"A", "B"}

\* ------------------------------------------------------------- JS values

Null == {}

Some(v) == {v}

\* The value held by a non-null nullable.
The(o) == CHOOSE v \in o : TRUE

\* A request body's content when the field is absent (undefined).  Strings
\* are sequences of one-character strings, so this value is no string.
Undefined == <<"undefined">>

\* String.prototype.trim, on a sequence of characters.
RECURSIVE TrimStart(_)
TrimStart(s) ==
    IF s # <<>> /\ Head(s) = " " THEN TrimStart(Tail(s)) ELSE s

RECURSIVE TrimEnd(_)
TrimEnd(s) ==
    IF s # <<>> /\ s[Len(s)] = " " THEN TrimEnd(SubSeq(s, 1, Len(s) - 1)) ELSE s

Trim(s) == TrimEnd(TrimStart(s))

\* The check without `!content.trim()`: only an absent or empty content.
ContentAbsent(c) == c = Undefined \/ c = <<>>

\* `!content || !content.trim()` of the create handlers.
ContentMissing(c) == c = Undefined \/ c = <<>> \/ Trim(c) = <<>>

\* `count || 0`
OrZero(c) == IF c = Null THEN 0 ELSE The(c)

\* ------------------------------------------------------------------ inputs

\* Request bodies' content values.
Contents == {Undefined, <<>>, <<" ">>, <<" ", "b", " ">>}

\* Authorization headers, as the words separated by single spaces; <<>> is
\* a request without the header.
Headers ==
    { <<>>, <<"Basic", "tokA">>, <<"Bearer", "stale">>,
      <<"Bearer", "tokA">>, <<"Bearer", "tokB">> }

\* The ?user_id= parameter of the feed; "" is an absent or empty parameter
\* (the handler treats every other value alike, so one viewer is drawn).
QueryUserIds == {"", "A"}

\* The :id parameter of a route.
ParamIds == 1..MaxPosts

\* supabaseAdmin.auth.getUser(token): the verified user, or null with an error.
GetUser(token) ==
    CASE token = "tokA" -> Some("A")
      [] token = "tokB" -> Some("B")
      [] OTHER -> Null

\* The public URL the storage resolves for an uploaded image.
PublicUrl == "url"

VARIABLES
    posts,          \* the posts table: id -> row
    likes,          \* the likes table: a set of rows
    comments,       \* the comments table: a set of rows
    nextPostId,     \* the store's id sequences
    nextLikeId,
    nextCommentId,
    reqs,           \* slot -> the request in flight there (or its response)
    calls,          \* requests received so far
    faults,         \* store round-trips failed so far
    hist            \* (post, user) -> what the toggles of the pair have done

vars ==
    << posts, likes, comments, nextPostId, nextLikeId, nextCommentId,
       reqs, calls, faults, hist >>

store == << posts, likes, comments, nextPostId, nextLikeId, nextCommentId >>

\* ------------------------------------------------------------- the store

\* from('likes') ... .eq('post_id', p)
LikesOfPost(p) == {l \in likes : l.post_id = p}

\* from('likes') ... .eq('post_id', p).eq('user_id', u)
LikesOfPair(p, u) == {l \in likes : l.post_id = p /\ l.user_id = u}

\* from('comments') ... .eq('post_id', p)
CommentsOfPost(p) == {c \in comments : c.post_id = p}

\* .maybeSingle(): the row when exactly one matches; null when none matches,
\* and null (with an error the callers do not read) when several match.
MaybeSingleId(rows) ==
    IF Cardinality(rows) = 1 THEN Some(The(rows).id) ELSE Null

\* The filter without .eq('user_id', u): the rows of any author.
AnyonesPosts(id, u) ==
    {p \in DOMAIN posts : p = id}

\* from('posts') ... .eq('id', id).eq('user_id', u)
OwnPosts(id, u) ==
    {p \in DOMAIN posts : p = id /\ posts[p].user_id = u}

\* .select('*', {count: 'exact', head: true}): the count, or null on failure.
CountOf(rows, ok) == IF ok THEN Some(Cardinality(rows)) ELSE Null

\* A store round-trip either succeeds or is one of the run's failures.
RoundTrip(ok) ==
    /\ ok \/ faults < MaxFaults
    /\ faults' = IF ok THEN faults ELSE faults + 1

\* ------------------------------------------------------------- requests

\* A request: its route, the inputs its handler has read, the handler's
\* locals and program point, and the response once sent.  The fields from
\* `ops` on record what happened, for the properties; no handler reads them
\* (`queried`: the ids of the rows the feed's posts query returned;
\* `hadImage`: the post had an image_url when the update reached it;
\* for a toggle, `rowsBefore`: the pair's Like rows at its lookup, `noPost`:
\* no post had its id then, `since`: the number of requests received up to
\* its arrival if no other request was in flight then, `race`: whether it
\* was the first or the second of two toggles that found the same row).
NewReq(route) ==
    [ route |-> route, pc |-> "idle", headers |-> <<>>, user |-> Null,
      id |-> 0, content |-> Undefined, remove_image |-> FALSE,
      currentUserId |-> Null, existing |-> Null, entries |-> <<>>,
      status |-> 0, error |-> "", liked |-> Null, body |-> <<>>,
      ops |-> 0, failed |-> FALSE, notOwn |-> FALSE, changed |-> 0,
      solo |-> FALSE, prev |-> Null, rowsAfter |-> 0,
      queried |-> {}, hadImage |-> FALSE,
      rowsBefore |-> 0, since |-> Null, noPost |-> FALSE, race |-> "" ]

\* A slot with no request in it.
Idle == NewReq("idle")

\* A response is delivered before any handler takes its next step:
\* delivering touches nothing shared, so no interleaving of store
\* round-trips is lost.
Quiet == \A s \in Slots : reqs[s].pc # "done"

\* A request for `route` arrives on the lowest free connection.
Arrives(s, route) ==
    /\ Quiet
    /\ reqs[s].pc = "idle"
    /\ \A t \in Slots : t < s => reqs[t].pc # "idle"
    /\ calls < MaxCalls
    /\ calls' = calls + 1

At(s, route, pc) ==
    /\ Quiet
    /\ reqs[s].route = route
    /\ reqs[s].pc = pc

\* res.status(code).json(...)
Respond(r, code, err) ==
    [r EXCEPT !.pc = "done", !.status = code, !.error = err]

\* The response leaves; the connection is free again.
Close(s) ==
    /\ reqs[s].pc = "done"
    /\ reqs' = [reqs EXCEPT ![s] = Idle]
    /\ UNCHANGED << store, calls, faults, hist >>

Pairs == ParamIds \X Users

\* The posts the store holds when the server starts: none, or one that an
\* earlier POST /api/posts of user A created.
InitialPosts ==
    { [p \in {} |-> 0],
      [p \in {1} |-> [ user_id |-> "A", content |-> <<"a">>,
                       image_url |-> Null, created_at |-> 1 ]] }

Init ==
    /\ posts \in InitialPosts
    /\ likes = {}
    /\ comments = {}
    /\ nextPostId = Cardinality(DOMAIN posts) + 1
    /\ nextLikeId = 1
    /\ nextCommentId = 1
    /\ reqs = [s \in Slots |-> Idle]
    /\ calls = 0
    /\ faults = 0
    /\ hist = [pr \in Pairs |-> [solo |-> TRUE, last |-> Null, raced |-> Null]]

\* ------------------------------------------------------------ authenticate

AuthRoutes ==
    {"createPost", "upload", "delete", "put", "like", "comment", "profile"}

\* authenticate without the check of the header's scheme.
AuthResultAnyScheme(h) ==
    IF Len(h) < 2
    THEN [status |-> 401, error |-> "Missing or invalid token", user |-> Null]
    ELSE IF GetUser(h[2]) = Null
         THEN [status |-> 401, error |-> "Invalid token", user |-> Null]
         ELSE [status |-> 0, error |-> "", user |-> GetUser(h[2])]

\* async function authenticate(req, res, next), on the authorization header
\* h: the 401 it answers, or (status 0) req.user as it calls next().
AuthResult(h) ==
    IF Len(h) < 2 \/ h[1] # "Bearer"
    THEN [status |-> 401, error |-> "Missing or invalid token", user |-> Null]
    ELSE IF GetUser(h[2]) = Null
         THEN [status |-> 401, error |-> "Invalid token", user |-> Null]
         ELSE [status |-> 0, error |-> "", user |-> GetUser(h[2])]

\* Another toggle of the pair (id, u) is in flight: received and waiting for
\* the identity service, or between its lookup and its write.
OtherToggle(s, id, u) ==
    \E t \in Slots \ {s} :
        /\ reqs[t].route = "like"
        /\ reqs[t].pc \in {"auth", "act"}
        /\ reqs[t].id = id
        /\ AuthResult(reqs[t].headers).user = Some(u)

\* The request for `route` as authenticate leaves it at its first await:
\* answered 401 when the header is missing or has another scheme (lines
\* 27-29, no await), else waiting for getUser (line 31).
Received(route, hdr, id, alone) ==
    LET r == [NewReq(route) EXCEPT
                 !.headers = hdr, !.id = id,
                 !.since = IF route = "like" /\ alone THEN Some(calls + 1) ELSE Null]
    IN  IF AuthResult(hdr).error = "Missing or invalid token"
        THEN Respond(r, 401, "Missing or invalid token")
        ELSE [r EXCEPT !.pc = "auth"]

\* A request for an authenticated route arrives and the middleware runs up
\* to its await of the identity service.  The :id of a toggle is read here
\* (it tells which toggles overlap); the other inputs of a request are read
\* where its handler first uses them.
Authenticate(s) ==
    /\ Quiet
    /\ reqs[s].pc = "idle"
    /\ \E route \in AuthRoutes, hdr \in Headers, id \in ParamIds :
        /\ Arrives(s, route)
        /\ route = "like" \/ id = 1
        /\ LET pid == IF route = "like" THEN id ELSE 0
               alone == \A t \in Slots \ {s} : reqs[t].pc = "idle"
               who == AuthResult(hdr).user
           IN  /\ reqs' = [reqs EXCEPT ![s] = Received(route, hdr, pid, alone)]
               /\ hist' = IF route = "like" /\ who # Null
                          THEN [hist EXCEPT ![<<id, The(who)>>].solo =
                                    @ /\ ~OtherToggle(s, id, The(who))]
                          ELSE hist
        /\ UNCHANGED << store, faults >>

\* getUser resolves with an error or without a user: 401 (lines 32-34).
InvalidToken(s) ==
    /\ Quiet
    /\ reqs[s].pc = "auth"
    /\ AuthResult(reqs[s].headers).status # 0
    /\ reqs' = [reqs EXCEPT ![s] = Respond(reqs[s], 401, "Invalid token")]
    /\ UNCHANGED << store, calls, faults, hist >>

\* getUser resolves with the user of the request for `route` in slot s:
\* the middleware sets req.user and calls next() (lines 35-36).  The handler
\* then runs up to its first store round-trip in the same step: it reads
\* nothing shared before that round-trip.
Enters(s, route) ==
    /\ At(s, route, "auth")
    /\ AuthResult(reqs[s].headers).status = 0
    /\ UNCHANGED calls

\* The request with req.user set.
Admitted(r) == [r EXCEPT !.user = AuthResult(r.headers).user, !.pc = "handler"]

\* ------------------------------------------------------------------ likes

\* Another toggle in flight found the same Like row as the toggle of slot s.
RacesOnRow(s) ==
    \E t \in Slots \ {s} :
        /\ reqs[t].route = "like"
        /\ reqs[t].pc = "act"
        /\ reqs[t].existing # Null
        /\ reqs[t].existing = reqs[s].existing

\* POST /api/posts/:id/like, the existence lookup:
\* .eq('post_id', postId).eq('user_id', userId).maybeSingle()
LikeLookup(s) ==
    /\ Enters(s, "like")
    /\ \E ok \in BOOLEAN :
        /\ RoundTrip(ok)
        /\ LET r == Admitted(reqs[s])
               id == r.id
               u == The(r.user)
               found == IF ok THEN MaybeSingleId(LikesOfPair(id, u)) ELSE Null
           IN  reqs' = [reqs EXCEPT ![s] =
                   [r EXCEPT !.existing = found, !.pc = "act",
                             !.ops = @ + 1, !.failed = ~ok,
                             !.rowsBefore = Cardinality(LikesOfPair(id, u)),
                             !.noPost = id \notin DOMAIN posts]]
        /\ UNCHANGED << store, hist >>

\* The toggle's response, with what the pair's rows are as it is sent.
LikeResponse(r, liked, ok, n, rows) ==
    [Respond(r, 200, "") EXCEPT
        !.liked = Some(liked), !.ops = @ + 1, !.failed = @ \/ ~ok,
        !.changed = n,
        !.solo = hist[<<r.id, The(r.user)>>].solo,
        !.prev = hist[<<r.id, The(r.user)>>].last,
        !.rowsAfter = Cardinality(rows)]

\* if (existing) { delete().eq('id', existing.id); res.json({liked: false}) }
LikeDelete(s) ==
    /\ At(s, "like", "act")
    /\ reqs[s].existing # Null
    /\ \E ok \in BOOLEAN :
        /\ RoundTrip(ok)
        /\ LET r == reqs[s]
               u == The(r.user)
               first == RacesOnRow(s)
               second == ~first /\ hist[<<r.id, u>>].raced = r.existing
           IN  /\ likes' = IF ok THEN {l \in likes : l.id # The(r.existing)} ELSE likes
               /\ reqs' = [reqs EXCEPT ![s] =
                      [LikeResponse(r, FALSE, ok, Cardinality(likes \ likes'),
                          {l \in likes' : l.post_id = r.id /\ l.user_id = u})
                       EXCEPT !.race = IF first THEN "first"
                                       ELSE IF second THEN "second" ELSE ""]]
               /\ hist' = [hist EXCEPT ![<<r.id, u>>].last = Some(FALSE),
                                       ![<<r.id, u>>].raced =
                                           IF first THEN r.existing ELSE Null]
        /\ UNCHANGED << posts, comments, nextPostId, nextLikeId, nextCommentId, calls >>

\* else { insert({user_id, post_id}); res.json({liked: true}) }
LikeInsert(s) ==
    /\ At(s, "like", "act")
    /\ reqs[s].existing = Null
    /\ nextLikeId <= MaxLikes
    /\ \E ok \in BOOLEAN :
        /\ RoundTrip(ok)
        /\ LET r == reqs[s]
               u == The(r.user)
           IN  /\ likes' = IF ok
                           THEN likes \cup
                                {[id |-> nextLikeId, post_id |-> r.id, user_id |-> u]}
                           ELSE likes
               /\ nextLikeId' = IF ok THEN nextLikeId + 1 ELSE nextLikeId
               /\ reqs' = [reqs EXCEPT ![s] =
                      LikeResponse(r, TRUE, ok, Cardinality(likes' \ likes),
                          {l \in likes' : l.post_id = r.id /\ l.user_id = u})]
               /\ hist' = [hist EXCEPT ![<<r.id, u>>].last = Some(TRUE)]
        /\ UNCHANGED << posts, comments, nextPostId, nextCommentId, calls >>

\* ------------------------------------------------------------------- feed

\* The ids of `rows` in the opposite order, oldest first.
RECURSIVE OldestFirst(_, _)
OldestFirst(rows, ids) ==
    IF ids = {} THEN <<>>
    ELSE LET top == CHOOSE p \in ids :
                        \A q \in ids : rows[p].created_at <= rows[q].created_at
         IN  <<top>> \o OldestFirst(rows, ids \ {top})

\* The ids of `rows` (id -> row), newest first:
\* .order('created_at', {ascending: false})
RECURSIVE NewestFirst(_, _)
NewestFirst(rows, ids) ==
    IF ids = {} THEN <<>>
    ELSE LET top == CHOOSE p \in ids :
                        \A q \in ids : rows[q].created_at <= rows[p].created_at
         IN  <<top>> \o NewestFirst(rows, ids \ {top})

\* What the async callback of posts.map holds for one post: the post's
\* columns and the callback's locals likeCount, commentCount and myLike;
\* the seen* fields record what the store held when each lookup was made,
\* and rank how many callbacks had returned before this one did.
NewEntry(id) ==
    [ id |-> id, created_at |-> posts[id].created_at,
      pc |-> "likes", likeCount |-> Null, commentCount |-> Null,
      myLike |-> Null, failed |-> FALSE,
      seenLikes |-> 0, seenComments |-> 0, seenMine |-> FALSE, rank |-> 0 ]

\* The callbacks of the request that have already returned.
Returned(r) == Cardinality({k \in 1..Len(r.entries) : r.entries[k].pc = "done"})

\* `req.query.user_id || null`
CurrentUserId(q) == IF q = "" THEN Null ELSE Some(q)

\* return {...post, like_count: likeCount || 0,
\*         comment_count: commentCount || 0, liked_by_me: likedByMe}
Enrich(e) ==
    [ id |-> e.id, created_at |-> e.created_at,
      like_count |-> OrZero(e.likeCount),
      comment_count |-> OrZero(e.commentCount), liked_by_me |-> e.myLike # Null ]

\* Promise.all resolves once every callback has returned, and the handler
\* sends res.json(enriched); until then the request waits.
Settle(r) ==
    IF \A i \in 1..Len(r.entries) : r.entries[i].pc = "done"
    THEN [Respond(r, 200, "") EXCEPT
             !.body = [i \in 1..Len(r.entries) |-> Enrich(r.entries[i])]]
    ELSE r

\* GET /api/posts arrives: the handler reads req.query.user_id (line 47) and
\* issues the posts query, which it awaits (line 49); the request is in
\* flight and the query has not run yet.
FeedReceived(s) ==
    /\ Arrives(s, "feed")
    /\ \E q \in QueryUserIds :
        reqs' = [reqs EXCEPT ![s] =
                    [NewReq("feed") EXCEPT
                        !.pc = "query", !.currentUserId = CurrentUserId(q)]]
    /\ UNCHANGED << store, faults, hist >>

\* The posts query runs at the store, newest first (lines 49-59); on its
\* result the handler answers 500 or starts one callback per post.
FeedQuery(s) ==
    /\ At(s, "feed", "query")
    /\ \E ok \in BOOLEAN :
        /\ RoundTrip(ok)
        /\ LET r == [reqs[s] EXCEPT
                        !.ops = 1, !.failed = ~ok,
                        !.queried = IF ok THEN DOMAIN posts ELSE {}]
               order == NewestFirst(posts, DOMAIN posts)
           IN  reqs' = [reqs EXCEPT ![s] =
                   IF ok
                   THEN Settle([r EXCEPT !.pc = "enrich",
                            !.entries = [i \in 1..Len(order) |-> NewEntry(order[i])]])
                   ELSE Respond(r, 500, "Failed to fetch posts")]
    /\ UNCHANGED << store, calls, hist >>

\* const {count: likeCount} = ... from('likes') ... .eq('post_id', post.id)
FeedLikeCount(s) ==
    /\ At(s, "feed", "enrich")
    /\ \E i \in 1..Len(reqs[s].entries), ok \in BOOLEAN :
        /\ reqs[s].entries[i].pc = "likes"
        /\ RoundTrip(ok)
        /\ LET e == reqs[s].entries[i]
               rows == LikesOfPost(e.id)
           IN  reqs' = [reqs EXCEPT ![s] = Settle(
                   [reqs[s] EXCEPT !.ops = @ + 1, !.entries[i] =
                   [e EXCEPT !.likeCount = CountOf(rows, ok), !.pc = "comments",
                             !.failed = @ \/ ~ok, !.seenLikes = Cardinality(rows)]])]
        /\ UNCHANGED << store, calls, hist >>

\* const {count: commentCount} = ... from('comments') ... .eq('post_id', post.id)
FeedCommentCount(s) ==
    /\ At(s, "feed", "enrich")
    /\ \E i \in 1..Len(reqs[s].entries), ok \in BOOLEAN :
        /\ reqs[s].entries[i].pc = "comments"
        /\ RoundTrip(ok)
        /\ LET e == reqs[s].entries[i]
               rows == CommentsOfPost(e.id)
           IN  reqs' = [reqs EXCEPT ![s] = Settle(
                   [reqs[s] EXCEPT !.ops = @ + 1, !.entries[i] =
                   [e EXCEPT !.commentCount = CountOf(rows, ok),
                             !.pc = IF reqs[s].currentUserId # Null THEN "mine" ELSE "done",
                             !.rank = IF reqs[s].currentUserId # Null THEN @
                                      ELSE Returned(reqs[s]),
                             !.failed = @ \/ ~ok, !.seenComments = Cardinality(rows)]])]
        /\ UNCHANGED << store, calls, hist >>

\* if (currentUserId) { const {data: myLike} = ... .maybeSingle() }
FeedMyLike(s) ==
    /\ At(s, "feed", "enrich")
    /\ \E i \in 1..Len(reqs[s].entries), ok \in BOOLEAN :
        /\ reqs[s].entries[i].pc = "mine"
        /\ RoundTrip(ok)
        /\ LET e == reqs[s].entries[i]
               rows == LikesOfPair(e.id, The(reqs[s].currentUserId))
           IN  reqs' = [reqs EXCEPT ![s] = Settle(
                   [reqs[s] EXCEPT !.ops = @ + 1, !.entries[i] =
                   [e EXCEPT !.myLike = IF ok THEN MaybeSingleId(rows) ELSE Null,
                             !.pc = "done", !.rank = Returned(reqs[s]),
                             !.failed = @ \/ ~ok, !.seenMine = rows # {}]])]
        /\ UNCHANGED << store, calls, hist >>

\* ------------------------------------------------------------------ posts

\* The table `rows` with row `row` under the new id `id`.
Inserted(rows, id, row) ==
    [p \in DOMAIN rows \cup {id} |-> IF p = id THEN row ELSE rows[p]]

\* insert({user_id, content, image_url}).select().single()
InsertPost(r, content, image_url, ok) ==
    /\ nextPostId <= MaxPosts
    /\ posts' = IF ok
                THEN Inserted(posts, nextPostId,
                         [ user_id |-> The(r.user), content |-> content,
                           image_url |-> image_url, created_at |-> nextPostId ])
                ELSE posts
    /\ nextPostId' = IF ok THEN nextPostId + 1 ELSE nextPostId
    /\ UNCHANGED << likes, comments, nextLikeId, nextCommentId >>

\* POST /api/posts
CreatePost(s) ==
    /\ Enters(s, "createPost")
    /\ \E content \in Contents, ok \in BOOLEAN :
        /\ RoundTrip(ok)
        /\ LET r == [Admitted(reqs[s]) EXCEPT !.content = content]
           IN  IF ContentMissing(content)
               THEN /\ ok
                    /\ reqs' = [reqs EXCEPT ![s] = Respond(r, 400, "Content is required")]
                    /\ UNCHANGED store
               ELSE /\ InsertPost(r, Trim(content), Null, ok)
                    /\ reqs' = [reqs EXCEPT ![s] =
                           [(IF ok THEN Respond(r, 201, "")
                                   ELSE Respond(r, 500, "Failed to create post"))
                            EXCEPT !.ops = 1, !.failed = ~ok,
                                   !.changed = IF ok THEN 1 ELSE 0]]
        /\ UNCHANGED hist

\* `req.body.content || ''`
ContentOrEmpty(c) == IF c = Undefined \/ c = <<>> THEN <<>> ELSE c

\* POST /api/posts/upload: next() starts upload.single('image'), which reads
\* the multipart body before the handler runs.
UploadParse(s) ==
    /\ Enters(s, "upload")
    /\ reqs' = [reqs EXCEPT ![s] = [Admitted(reqs[s]) EXCEPT !.pc = "parse"]]
    /\ UNCHANGED << store, faults, hist >>

\* POST /api/posts/upload, up to the upload of the image to the storage.
UploadImage(s) ==
    /\ At(s, "upload", "parse")
    /\ \E file \in BOOLEAN, content \in Contents, ok \in BOOLEAN :
        /\ RoundTrip(ok)
        /\ file \/ ok
        /\ LET r == [reqs[s] EXCEPT !.content = ContentOrEmpty(content)]
           IN  reqs' = [reqs EXCEPT ![s] =
                   IF ~file THEN Respond(r, 400, "Image file is required")
                   ELSE IF ~ok
                        THEN [Respond(r, 500, "Failed to create post with image")
                              EXCEPT !.failed = TRUE]
                        ELSE [r EXCEPT !.pc = "insert"]]
        /\ UNCHANGED << store, calls, hist >>

\* insert({user_id, content: content.trim(), image_url})
UploadInsert(s) ==
    /\ At(s, "upload", "insert")
    /\ \E ok \in BOOLEAN :
        /\ RoundTrip(ok)
        /\ LET r == reqs[s]
           IN  /\ InsertPost(r, Trim(r.content), Some(PublicUrl), ok)
               /\ reqs' = [reqs EXCEPT ![s] =
                      [(IF ok THEN Respond(r, 201, "")
                              ELSE Respond(r, 500, "Failed to create post with image"))
                       EXCEPT !.ops = 1, !.failed = ~ok,
                              !.changed = IF ok THEN 1 ELSE 0]]
        /\ UNCHANGED << calls, hist >>

\* The table `rows` without the rows `ids`.
Deleted(rows, ids) == [p \in DOMAIN rows \ ids |-> rows[p]]

\* The request's principal is not the author of an existing post `id`.
NotOwner(r, id) == id \in DOMAIN posts /\ posts[id].user_id # The(r.user)

\* A delete that reports a miss when it removed no row.
DeleteStatusStrict(n, ok) == IF ~ok THEN 500 ELSE IF n = 0 THEN 404 ELSE 200

\* if (error) throw error; res.json({success: true}), for a delete that
\* removed n rows.
DeleteStatus(n, ok) == IF ok THEN 200 ELSE 500

\* DELETE /api/posts/:id: delete().eq('id', id).eq('user_id', req.user.id)
DeletePost(s) ==
    /\ Enters(s, "delete")
    /\ \E id \in ParamIds, ok \in BOOLEAN :
        /\ RoundTrip(ok)
        /\ LET r0 == Admitted(reqs[s])
               r == [r0 EXCEPT !.id = id, !.ops = 1, !.failed = ~ok,
                        !.notOwn = NotOwner(r0, id),
                        !.changed = IF ok THEN Cardinality(OwnPosts(id, The(r0.user)))
                                    ELSE 0]
           IN  /\ posts' = IF ok THEN Deleted(posts, OwnPosts(id, The(r.user))) ELSE posts
               /\ reqs' = [reqs EXCEPT ![s] =
                      Respond(r, DeleteStatus(r.changed, ok),
                          IF ok THEN "" ELSE "Failed to delete post")]
        /\ UNCHANGED << likes, comments, nextPostId, nextLikeId, nextCommentId, hist >>

\* PUT /api/posts/:id, the ownership lookup:
\* select('id, image_url').eq('id', id).eq('user_id', req.user.id).single()
PutLookup(s) ==
    /\ Enters(s, "put")
    /\ \E id \in ParamIds, ok \in BOOLEAN :
        /\ RoundTrip(ok)
        /\ LET r0 == Admitted(reqs[s])
               r == [r0 EXCEPT !.id = id, !.ops = 1, !.failed = ~ok,
                        !.notOwn = NotOwner(r0, id)]
               found == IF ok THEN OwnPosts(id, The(r.user)) ELSE {}
           IN  reqs' = [reqs EXCEPT ![s] =
                   IF found = {}
                   THEN Respond(r, 404, "Post not found or unauthorized")
                   ELSE [r EXCEPT !.existing = Some(id), !.pc = "update"]]
        /\ UNCHANGED << store, hist >>

\* An update that also writes an image_url unless it clears it.
UpdatedWithUrl(row, content, remove_image) ==
    [row EXCEPT
        !.content = IF content # Undefined THEN Trim(content) ELSE @,
        !.image_url = IF remove_image THEN Null ELSE Some(PublicUrl)]

\* const updates = {}; if (content !== undefined) updates.content =
\* content.trim(); if (remove_image) updates.image_url = null
Updated(row, content, remove_image) ==
    [row EXCEPT
        !.content = IF content # Undefined THEN Trim(content) ELSE @,
        !.image_url = IF remove_image THEN Null ELSE @]

\* update(updates).eq('id', id).select().single().  An update that matches
\* no row, or that sets no column, returns no row, which .single() reports
\* as an error.
PutUpdate(s) ==
    /\ At(s, "put", "update")
    /\ \E content \in Contents, remove_image \in BOOLEAN, ok \in BOOLEAN :
        /\ RoundTrip(ok)
        /\ LET r == [reqs[s] EXCEPT !.content = content, !.remove_image = remove_image,
                        !.ops = 2, !.failed = ~ok,
                        !.hadImage = reqs[s].id \in DOMAIN posts
                                     /\ posts[reqs[s].id].image_url # Null]
               hit == ok /\ r.id \in DOMAIN posts
                         /\ (content # Undefined \/ remove_image)
           IN  /\ posts' = IF hit
                           THEN [posts EXCEPT ![r.id] = Updated(@, content, remove_image)]
                           ELSE posts
               /\ reqs' = [reqs EXCEPT ![s] =
                      IF hit THEN [Respond(r, 200, "") EXCEPT !.changed = 1]
                      ELSE Respond(r, 500, "Failed to update post")]
        /\ UNCHANGED << likes, comments, nextPostId, nextLikeId, nextCommentId,
                        calls, hist >>

\* --------------------------------------------------------------- comments

\* POST /api/posts/:id/comments
PostComment(s) ==
    /\ Enters(s, "comment")
    /\ \E id \in ParamIds, content \in Contents, ok \in BOOLEAN :
        /\ RoundTrip(ok)
        /\ LET r == [Admitted(reqs[s]) EXCEPT !.id = id, !.content = content]
           IN  IF ContentMissing(content)
               THEN /\ ok
                    /\ reqs' = [reqs EXCEPT ![s] =
                           Respond(r, 400, "Comment content is required")]
                    /\ UNCHANGED store
               ELSE /\ nextCommentId <= MaxComments
                    /\ comments' = IF ok
                           THEN comments \cup
                                {[ id |-> nextCommentId, post_id |-> id,
                                   user_id |-> The(r.user), content |-> Trim(content) ]}
                           ELSE comments
                    /\ nextCommentId' = IF ok THEN nextCommentId + 1 ELSE nextCommentId
                    /\ reqs' = [reqs EXCEPT ![s] =
                           [(IF ok THEN Respond(r, 201, "")
                                   ELSE Respond(r, 500, "Failed to add comment"))
                            EXCEPT !.ops = 1, !.failed = ~ok,
                                   !.changed = IF ok THEN 1 ELSE 0]]
                    /\ UNCHANGED << posts, likes, nextPostId, nextLikeId >>
        /\ UNCHANGED hist

\* ---------------------------------------------------------------- profile

\* GET /api/profile: from('profiles').select('*').eq('id', req.user.id).single()
GetProfile(s) ==
    /\ Enters(s, "profile")
    /\ \E ok \in BOOLEAN :
        /\ RoundTrip(ok)
        /\ LET r == Admitted(reqs[s])
           IN  reqs' = [reqs EXCEPT ![s] =
                   [(IF ok THEN Respond(r, 200, "")
                           ELSE Respond(r, 500, "Failed to fetch profile"))
                    EXCEPT !.ops = 1, !.failed = ~ok]]
        /\ UNCHANGED << store, hist >>

\* ------------------------------------------------------------------- next

Next ==
    \E s \in Slots :
        \/ Authenticate(s)
        \/ InvalidToken(s)
        \/ FeedReceived(s)
        \/ FeedQuery(s)
        \/ FeedLikeCount(s)
        \/ FeedCommentCount(s)
        \/ FeedMyLike(s)
        \/ CreatePost(s)
        \/ UploadParse(s)
        \/ UploadImage(s)
        \/ UploadInsert(s)
        \/ DeletePost(s)
        \/ PutLookup(s)
        \/ PutUpdate(s)
        \/ LikeLookup(s)
        \/ LikeDelete(s)
        \/ LikeInsert(s)
        \/ PostComment(s)
        \/ GetProfile(s)
        \/ Close(s)

Spec == Init /\ [][Next]_vars

\* ------------------------------------------------------------- properties

\* The response of slot s, once sent.
Sent(s, route) == reqs[s].route = route /\ reqs[s].pc = "done"

\* C1: in every reachable state there is at most one Like row for each
\* (post_id, user_id) pair.
C1_AtMostOneLikePerPair ==
    \A pr \in Pairs : Cardinality(LikesOfPair(pr[1], pr[2])) <= 1

\* C2: from a store with no Like row for the pair, toggles of the pair that
\* never overlap another toggle of the pair answer liked=true, liked=false,
\* liked=true, ...; a call that answers liked=true leaves exactly one Like
\* row for the pair and one that answers liked=false leaves none.
C2_SoloTogglesAlternate ==
    \A s \in Slots :
        Sent(s, "like") /\ reqs[s].status = 200 /\ reqs[s].solo =>
            /\ The(reqs[s].liked) = (reqs[s].prev # Some(TRUE))
            /\ reqs[s].rowsAfter = IF The(reqs[s].liked) THEN 1 ELSE 0

\* C3: for every post of a 200 feed response, like_count is the number of
\* Like rows of the post and comment_count the number of its Comment rows,
\* as the store held them when each count was read.
C3_FeedCountsMatchStore ==
    \A s \in Slots :
        Sent(s, "feed") /\ reqs[s].status = 200 =>
            \A i \in 1..Len(reqs[s].body) :
                /\ reqs[s].body[i].like_count = reqs[s].entries[i].seenLikes
                /\ reqs[s].body[i].comment_count = reqs[s].entries[i].seenComments

\* C4: for every post of a feed response, liked_by_me is true exactly when a
\* viewer id was supplied and the store held at least one Like row for
\* (post_id, viewer id) when the lookup was made.
C4_LikedByMeIffLikeExists ==
    \A s \in Slots :
        Sent(s, "feed") /\ reqs[s].status = 200 =>
            \A i \in 1..Len(reqs[s].body) :
                reqs[s].body[i].liked_by_me =
                    (reqs[s].currentUserId # Null /\ reqs[s].entries[i].seenMine)

\* C5: an update or a delete of an existing post by a principal who is not
\* its author is answered 404.
C5_NonOwnerGets404 ==
    \A s \in Slots :
        (Sent(s, "put") \/ Sent(s, "delete")) /\ reqs[s].notOwn =>
            reqs[s].status = 404

\* C5, amended: an update of an existing post by a principal who is not its
\* author is answered 404; a delete by such a principal removes no row and
\* is answered 200 (500 when the store call failed); neither is answered 403.
C5_NonOwnerNeverMutates ==
    \A s \in Slots :
        reqs[s].pc = "done" /\ reqs[s].notOwn =>
            /\ reqs[s].route = "put" => reqs[s].status = 404
            /\ reqs[s].route = "delete" =>
                   /\ reqs[s].changed = 0
                   /\ reqs[s].status = IF reqs[s].failed THEN 500 ELSE 200
            /\ reqs[s].status # 403

\* An update by a principal who is not the author has been answered.
C5_Witness ==
    \E s \in Slots : Sent(s, "put") /\ reqs[s].notOwn /\ reqs[s].status = 404

\* The delete handler of slot s answers in this step.
DeleteAnswers(s) ==
    /\ reqs[s].pc = "auth"
    /\ reqs'[s].route = "delete"
    /\ reqs'[s].user # Null
    /\ reqs'[s].pc = "done"

\* C6: a delete of a post id that does not exist, or of a post of another
\* author, leaves every Post, Like and Comment row unchanged and is answered
\* as the delete of an own existing post is: 200 whenever the store call did
\* not fail (and 500 when it did).
C6_DeleteOfNothingSucceeds ==
    [][ \A s \in Slots :
            DeleteAnswers(s) =>
                /\ reqs'[s].status = IF faults' = faults THEN 200 ELSE 500
                /\ OwnPosts(reqs'[s].id, The(reqs'[s].user)) = {} =>
                       /\ posts' = posts
                       /\ likes' = likes
                       /\ comments' = comments ]_vars

\* A delete that matched no row has been answered 200.
C6_Witness ==
    \E s \in Slots :
        /\ Sent(s, "delete")
        /\ reqs[s].status = 200
        /\ reqs[s].changed = 0
        /\ reqs[s].notOwn

\* The request whose handler takes this step.
Acting(s) == reqs'[s] # reqs[s]

\* C7: the content and image_url of a post change, and a post row is
\* removed, only by a step of a request whose verified principal is the
\* post's author; the id and the author of a post never change.
C7_OnlyAuthorMutates ==
    [][ \A id \in DOMAIN posts :
            /\ id \notin DOMAIN posts' \/ posts'[id] # posts[id] =>
                   \E s \in Slots :
                       Acting(s) /\ reqs'[s].user = Some(posts[id].user_id)
            /\ id \in DOMAIN posts' =>
                   /\ posts'[id].user_id = posts[id].user_id
                   /\ posts'[id].created_at = posts[id].created_at ]_vars

\* An author's update has changed a post.
C7_Witness ==
    \E s \in Slots :
        /\ Sent(s, "put")
        /\ reqs[s].status = 200
        /\ reqs[s].id \in DOMAIN posts
        /\ posts[reqs[s].id].content = <<"b">>
        /\ posts[reqs[s].id].image_url = Null
        /\ posts[reqs[s].id].user_id = The(reqs[s].user)

\* C8: a feed read one of whose per-post lookups failed at the store is
\* answered 500.
C8_FailedLookupFailsFeed ==
    \A s \in Slots :
        Sent(s, "feed") /\ (\E i \in 1..Len(reqs[s].entries) :
                                reqs[s].entries[i].failed) =>
            reqs[s].status = 500

\* C9: a toggle one of whose store operations failed is answered 500; it
\* answers liked=true only when it inserted a Like row and liked=false only
\* when it removed one.
C9_FailedToggleFails ==
    \A s \in Slots :
        Sent(s, "like") /\ reqs[s].user # Null =>
            /\ reqs[s].failed => reqs[s].status = 500
            /\ reqs[s].status = 200 => reqs[s].changed = 1

\* A header that is missing, does not start with 'Bearer ', or carries a
\* token the identity service rejects.
BadCredential(h) ==
    \/ h = <<>>
    \/ h[1] # "Bearer"
    \/ h[2] \notin {"tokA", "tokB"}

\* C10: a request for an authenticated route whose credential is bad is
\* answered 401 by the middleware: every step it takes leaves it waiting
\* for the identity service or answers 401, its handler issues no store
\* operation and the store is unchanged.
C10_BadCredentialStopsAt401 ==
    [][ \A s \in Slots :
            Acting(s) /\ reqs'[s].route \in AuthRoutes
                      /\ BadCredential(reqs'[s].headers) =>
                /\ reqs'[s].pc \in {"auth", "done"}
                /\ reqs'[s].pc = "auth" => reqs[s].pc = "idle"
                /\ reqs'[s].pc = "done" => reqs'[s].status = 401
                /\ reqs'[s].user = Null
                /\ reqs'[s].ops = 0
                /\ store' = store ]_vars

\* A toggle with a rejected token has been answered 401.
C10_Witness ==
    \E s \in Slots :
        /\ Sent(s, "like")
        /\ reqs[s].headers = <<"Bearer", "stale">>
        /\ reqs[s].status = 401

\* C11: in every reachable state every Post row has content that is
\* non-empty after trimming whitespace.
C11_PostContentNonEmpty ==
    \A p \in DOMAIN posts :
        \E i \in 1..Len(posts[p].content) : posts[p].content[i] # " "

\* A content that is missing, empty or only whitespace.
Blank(c) == c = Undefined \/ \A i \in 1..Len(c) : c[i] = " "

\* t is c without its leading and trailing whitespace.
IsTrimOf(t, c) ==
    /\ t # <<>>
    /\ t[1] # " "
    /\ t[Len(t)] # " "
    /\ \E i \in 1..Len(c) :
           /\ i + Len(t) - 1 <= Len(c)
           /\ t = SubSeq(c, i, i + Len(t) - 1)
           /\ \A k \in 1..Len(c) : k < i \/ k > i + Len(t) - 1 => c[k] = " "

\* The handler of a text create or a comment create answers in this step.
CreateAnswers(s) ==
    /\ reqs[s].pc = "auth"
    /\ reqs'[s].route \in {"createPost", "comment"}
    /\ reqs'[s].user # Null
    /\ reqs'[s].pc = "done"

\* C12: a text create or a comment create whose content is missing, empty
\* or only whitespace is answered 400 and inserts no row; otherwise the one
\* row it inserts has the trimmed content and the verified principal as its
\* user (and, for a post, a null image_url) and the answer is 201; a store
\* call that fails is answered 500 and inserts no row.
C12_CreateValidates ==
    [][ \A s \in Slots :
            CreateAnswers(s) =>
                LET r == reqs'[s]
                IN  IF Blank(r.content)
                    THEN r.status = 400 /\ store' = store
                    ELSE IF faults' # faults
                    THEN r.status = 500 /\ store' = store
                    ELSE /\ r.status = 201
                         /\ r.route = "createPost" =>
                                /\ \E p \in DOMAIN posts' \ DOMAIN posts :
                                       /\ DOMAIN posts' = DOMAIN posts \cup {p}
                                       /\ posts'[p].user_id = The(r.user)
                                       /\ IsTrimOf(posts'[p].content, r.content)
                                       /\ posts'[p].image_url = Null
                                /\ \A q \in DOMAIN posts : posts'[q] = posts[q]
                                /\ likes' = likes /\ comments' = comments
                         /\ r.route = "comment" =>
                                /\ \E c \in comments' \ comments :
                                       /\ comments' = comments \cup {c}
                                       /\ c.post_id = r.id
                                       /\ c.user_id = The(r.user)
                                       /\ IsTrimOf(c.content, r.content)
                                /\ posts' = posts /\ likes' = likes ]_vars

\* A text create with surrounding whitespace has been answered 201 and its
\* row holds the trimmed content.
C12_Witness ==
    \E s \in Slots :
        /\ Sent(s, "createPost")
        /\ reqs[s].status = 201
        /\ reqs[s].content = << " ", "b", " " >>
        /\ \E p \in DOMAIN posts :
               /\ posts[p].content = << "b" >>
               /\ posts[p].user_id = The(reqs[s].user)
               /\ posts[p].image_url = Null

\* C13: a 200 feed response holds exactly one EnrichedPost for each Post row
\* the posts query returned, newest first by created_at, whatever the order
\* in which the per-post lookups completed.
C13_FeedKeepsQueryOrder ==
    \A s \in Slots :
        Sent(s, "feed") /\ reqs[s].status = 200 =>
            LET b == reqs[s].body
            IN  /\ {b[i].id : i \in 1..Len(b)} = reqs[s].queried
                /\ Len(b) = Cardinality(reqs[s].queried)
                /\ \A i, j \in 1..Len(b) :
                       i < j => b[i].created_at > b[j].created_at

\* A feed of two posts has been answered after the lookups of the older
\* post completed first (the newer post's last lookup ended the wait).
C13_Witness ==
    \E s \in Slots :
        /\ Sent(s, "feed")
        /\ reqs[s].status = 200
        /\ Len(reqs[s].body) = 2
        /\ reqs[s].entries[2].rank = 0
        /\ reqs[s].entries[1].rank = 1

\* C14: the image_url of a post is set at most once, at creation: in every
\* step a post that stays keeps its image_url or has it become null (so a
\* null image_url stays null), and a post that appears has a fresh id.
C14_ImageUrlSetOnce ==
    [][ /\ \A id \in DOMAIN posts \cap DOMAIN posts' :
               posts'[id].image_url \in {posts[id].image_url, Null}
        /\ \A id \in DOMAIN posts' \ DOMAIN posts : id = nextPostId ]_vars

\* An update has cleared the image_url an upload had set.
C14_Witness ==
    \E s \in Slots :
        /\ Sent(s, "put")
        /\ reqs[s].status = 200
        /\ reqs[s].remove_image
        /\ reqs[s].hadImage
        /\ posts[reqs[s].id].image_url = Null

\* C15: when two toggles of a pair both find its one Like row before either
\* deletes it, both answer liked=false and the pair has no Like row once the
\* second has answered.
C15_RacingUnlikesRemoveTheRow ==
    \A s \in Slots :
        Sent(s, "like") /\ reqs[s].status = 200 /\ reqs[s].race # "" =>
            /\ reqs[s].liked = Some(FALSE)
            /\ reqs[s].race = "second" => reqs[s].rowsAfter = 0

\* C16: a toggle for an id that no post has, by a user with no Like row for
\* it, inserts a Like row for that id and answers liked=true.
C16_ToggleOfMissingPostInserts ==
    \A s \in Slots :
        Sent(s, "like") /\ reqs[s].status = 200
                        /\ reqs[s].noPost /\ reqs[s].rowsBefore = 0 =>
            /\ reqs[s].liked = Some(TRUE)
            /\ reqs[s].changed = 1
            /\ \E l \in likes : l.post_id = reqs[s].id
                                /\ l.user_id = The(reqs[s].user)

\* C17: a toggle that runs with no other request in flight from its arrival
\* to its answer, and that finds one or more Like rows for its pair, leaves
\* no Like row for the pair and answers liked=false.
C17_SoloToggleUnlikes ==
    \A s \in Slots :
        Sent(s, "like") /\ reqs[s].status = 200
                        /\ reqs[s].since = Some(calls)
                        /\ reqs[s].rowsBefore >= 1 =>
            /\ reqs[s].liked = Some(FALSE)
            /\ reqs[s].rowsAfter = 0

\* C18: every EnrichedPost of a 200 feed response is a snapshot of one store
\* state, even with toggles in flight; stated by the consequence that
\* must then hold of its values: liked_by_me = true implies like_count >= 1.
C18_EnrichedPostIsSnapshot ==
    \A s \in Slots :
        Sent(s, "feed") /\ reqs[s].status = 200 =>
            \A i \in 1..Len(reqs[s].body) :
                reqs[s].body[i].liked_by_me => reqs[s].body[i].like_count >= 1

=============================================================================
